---- MODULE Spec2Model ----
(***************************************************************************)
(* Model of db_helper.py (the SQLite lookup store: profile, airport and    *)
(* flight tables) and of the flight_brief.py handlers that write to it.    *)
(*                                                                         *)
(* Python strings are sequences of one-character strings, so that strip,   *)
(* upper, replace, split, startswith and the substring test are computed   *)
(* character by character.  Python's None is the value None below.         *)
(***************************************************************************)
EXTENDS Integers, Sequences, FiniteSets, TLC

VARIABLES profile, airport, airportSeq, flight, flightSeq, last, ret, calls

vars == <<profile, airport, airportSeq, flight, flightSeq, last, ret, calls>>

----------------------------------------------------------------------------
(* Bounds of the model.                                                    *)

\* AUTOINCREMENT ids handed out per table before inserts stop.
MaxAirportId == 3
MaxFlightId == 2

\* Values datetime.now().isoformat() can take: the wall clock is an input of
\* every write, and nothing orders two readings of it.
Times == {"T1", "T2"}

----------------------------------------------------------------------------
(* Python values and str methods.                                          *)

None == <<"<None>">>

\* What an operation returns: Python's None (also "not found"), or a value.
NoResult == <<>>
Result(v) == <<v>>

Tab == "\t"
\* Characters outside ASCII are written by their code point.
EmDash == "U+2014"
LeftBracket == "U+3010"
Whitespace == {" ", Tab, "\n"}

\* Values that are not str: None and two ints.
IntZero == <<"<int 0>">>
IntNumber == <<"<int 3835>">>
NonStrings == {None, IntZero, IntNumber}

\* isinstance(x, str)
IsStr(x) == x \notin NonStrings

\* The outcome of a call that raises instead of returning.
Raised == <<"<raise>">>

\* Python truthiness: None, "" and 0 are falsy.
Truthy(s) == s \notin {None, <<>>, IntZero}

\* `x or ""`
OrEmpty(s) == IF Truthy(s) THEN s ELSE <<>>

\* str.upper on one character of the alphabet used here.
UpperChar(c) ==
    CASE c = "c" -> "C"
      [] c = "z" -> "Z"
      [] c = "m" -> "M"
      [] c = "u" -> "U"
      [] c = "a" -> "A"
      [] c = "b" -> "B"
      [] OTHER -> c

Upper(s) == [i \in 1..Len(s) |-> UpperChar(s[i])]

RECURSIVE LStrip(_)
LStrip(s) ==
    IF s # <<>> /\ Head(s) \in Whitespace THEN LStrip(Tail(s)) ELSE s

RECURSIVE RStrip(_)
RStrip(s) ==
    IF s # <<>> /\ s[Len(s)] \in Whitespace
    THEN RStrip(SubSeq(s, 1, Len(s) - 1))
    ELSE s

\* str.strip()
Strip(s) == RStrip(LStrip(s))

\* str.replace(old, new) for a one-character old; new is a string.
RECURSIVE Replace(_, _, _)
Replace(s, old, new) ==
    IF s = <<>> THEN <<>>
    ELSE (IF Head(s) = old THEN new ELSE <<Head(s)>>) \o Replace(Tail(s), old, new)

\* str.startswith(prefix)
StartsWith(s, prefix) ==
    Len(s) >= Len(prefix) /\ SubSeq(s, 1, Len(prefix)) = prefix

\* `a in b` on strings: a is a contiguous substring of b.
Contains(a, b) ==
    \E i \in 1..(Len(b) - Len(a) + 1) : SubSeq(b, i, i + Len(a) - 1) = a

\* The guard without its strip() test.
Blank_NoStrip(s) == ~Truthy(s)

\* `not s or not s.strip()`
Blank(s) == ~Truthy(s) \/ Strip(s) = <<>>

----------------------------------------------------------------------------
(* Profile table: the rows of the table, at most the one with id = 1.  A   *)
(* column holds Null or a value: <<>> or <<v>>.  Hours are in tenths.      *)

Null == <<>>
Value(v) == <<v>>

ProfileId == 1

ProfileColumns ==
    { "name", "tech_level", "radio_qual", "total_landings", "total_hours",
      "type_landings", "type_hours", "previous_aircraft", "app_alert",
      "efb_status", "last_pf_time", "landing_quality", "pickup_location" }

\* data.get(key)
DictGet(data, key) == IF key \in DOMAIN data THEN Value(data[key]) ELSE Null

ProfileRow(id, columns, updated_at) ==
    [k \in ProfileColumns \cup {"id", "updated_at"} |->
        IF k = "id" THEN id
        ELSE IF k = "updated_at" THEN updated_at
        ELSE columns[k]]

\* Mutant of the upsert: on conflict a column given as NULL keeps its old value.
save_profile_rows_Coalesce(rows, data, now) ==
    IF rows = <<>>
    THEN <<ProfileRow(ProfileId, [k \in ProfileColumns |-> DictGet(data, k)], now)>>
    ELSE <<ProfileRow(ProfileId,
                      [k \in ProfileColumns |->
                          IF DictGet(data, k) = Null THEN rows[1][k] ELSE DictGet(data, k)],
                      now)>>

\* INSERT INTO profile (id, ...) VALUES (1, ...) ON CONFLICT(id) DO UPDATE SET
\* every column = excluded.column
save_profile_rows(rows, data, now) ==
    LET excluded == ProfileRow(ProfileId, [k \in ProfileColumns |-> DictGet(data, k)], now)
        hit == {i \in 1..Len(rows) : rows[i].id = ProfileId}
    IN  IF hit # {}
        THEN [i \in 1..Len(rows) |-> IF i \in hit THEN excluded ELSE rows[i]]
        ELSE Append(rows, excluded)

\* Mutant of the narrow update: the row is replaced by a fresh one.
update_last_pf_time_rows_Replace(rows, last_pf_time, now) ==
    <<ProfileRow(ProfileId,
                 [k \in ProfileColumns |->
                     IF k = "last_pf_time" THEN Value(last_pf_time) ELSE Null],
                 now)>>

\* SELECT id FROM profile WHERE id = 1, then UPDATE last_pf_time, updated_at
\* or INSERT (id, last_pf_time, updated_at)
update_last_pf_time_rows(rows, last_pf_time, now) ==
    LET hit == {i \in 1..Len(rows) : rows[i].id = ProfileId}
    IN  IF hit # {}
        THEN [i \in 1..Len(rows) |->
                 IF i \in hit
                 THEN [rows[i] EXCEPT !.last_pf_time = Value(last_pf_time),
                                      !.updated_at = now]
                 ELSE rows[i]]
        ELSE Append(rows,
                    ProfileRow(ProfileId,
                               [k \in ProfileColumns |->
                                   IF k = "last_pf_time" THEN Value(last_pf_time) ELSE Null],
                               now))

\* get_profile
get_profile(rows) ==
    LET hit == {i \in 1..Len(rows) : rows[i].id = ProfileId}
    IN  IF hit = {} THEN NoResult ELSE Result(rows[CHOOSE i \in hit : TRUE])

----------------------------------------------------------------------------
(* Flight table: rows in rowid order, the order of a full-table scan.      *)

\* _normalize_flight_number
CarrierPrefixes == << <<"C","Z">>, <<"M","U">>, <<"C","A">>, <<"3","U">>, <<"M","F">>, <<"H","U">> >>

\* Mutant of the prefix loop: the remainder is not stripped again.
RECURSIVE StripFirstPrefix_NoStrip(_, _)
StripFirstPrefix_NoStrip(s, prefixes) ==
    IF prefixes = <<>> THEN s
    ELSE IF StartsWith(s, Head(prefixes))
         THEN SubSeq(s, Len(Head(prefixes)) + 1, Len(s))
         ELSE StripFirstPrefix_NoStrip(s, Tail(prefixes))

RECURSIVE StripFirstPrefix(_, _)
StripFirstPrefix(s, prefixes) ==
    IF prefixes = <<>> THEN s
    ELSE IF StartsWith(s, Head(prefixes))
         THEN Strip(SubSeq(s, Len(Head(prefixes)) + 1, Len(s)))
         ELSE StripFirstPrefix(s, Tail(prefixes))

\* Mutant of the normalizer: internal spaces are kept.
_normalize_flight_number_KeepSpaces(num) ==
    IF ~Truthy(num) \/ ~IsStr(num) THEN <<>>
    ELSE StripFirstPrefix(Upper(Strip(num)), CarrierPrefixes)

\* Mutant of the normalizer: no isinstance test, so num.strip() raises on a
\* truthy value that is not a str.
_normalize_flight_number_NoTypeTest(num) ==
    IF ~Truthy(num) THEN <<>>
    ELSE IF ~IsStr(num) THEN Raised
         ELSE StripFirstPrefix(Replace(Upper(Strip(num)), " ", <<>>), CarrierPrefixes)

_normalize_flight_number(num) ==
    IF ~Truthy(num) \/ ~IsStr(num) THEN <<>>
    ELSE StripFirstPrefix(Replace(Upper(Strip(num)), " ", <<>>), CarrierPrefixes)

\* Mutants of the match test: one containment rule dropped.
FlightMatches_NoForward(fn, key, flight_number) ==
    \/ _normalize_flight_number(fn) = key
    \/ (fn # <<>> /\ Contains(fn, Upper(Strip(flight_number))))

FlightMatches_NoReverse(fn, key, flight_number) ==
    \/ _normalize_flight_number(fn) = key
    \/ (fn # <<>> /\ Contains(key, fn))

\* The test of the scan loop of get_flight_by_number on one stored number.
FlightMatches(fn, key, flight_number) ==
    \/ _normalize_flight_number(fn) = key
    \/ (fn # <<>> /\ Contains(key, fn))
    \/ (fn # <<>> /\ Contains(fn, Upper(Strip(flight_number))))

FlightResult(r) ==
    [flight_number |-> OrEmpty(r.flight_number), route |-> OrEmpty(r.route),
     dep_time |-> OrEmpty(r.dep_time), sign_in_time |-> OrEmpty(r.sign_in_time)]

\* Mutant of the scan: the last matching row wins instead of the first.
RECURSIVE ScanFlights_Last(_, _, _)
ScanFlights_Last(rows, key, flight_number) ==
    IF rows = <<>> THEN NoResult
    ELSE IF FlightMatches(OrEmpty(rows[Len(rows)].flight_number), key, flight_number)
         THEN Result(FlightResult(rows[Len(rows)]))
         ELSE ScanFlights_Last(SubSeq(rows, 1, Len(rows) - 1), key, flight_number)

RECURSIVE ScanFlights(_, _, _)
ScanFlights(rows, key, flight_number) ==
    IF rows = <<>> THEN NoResult
    ELSE IF FlightMatches(OrEmpty(Head(rows).flight_number), key, flight_number)
         THEN Result(FlightResult(Head(rows)))
         ELSE ScanFlights(Tail(rows), key, flight_number)

get_flight_by_number(rows, flight_number) ==
    IF Blank(flight_number) THEN NoResult
    ELSE IF _normalize_flight_number(flight_number) = <<>> THEN NoResult
         ELSE ScanFlights(rows, _normalize_flight_number(flight_number), flight_number)

\* add_or_update_flight on a non-blank number: SELECT id, then UPDATE that
\* row or INSERT a new one with the next AUTOINCREMENT id.
FlightIndex(rows, fn) == {i \in 1..Len(rows) : rows[i].flight_number = fn}

UpdateFlightRow(r, route, dep_time, sign_in_time, now) ==
    [r EXCEPT !.route = OrEmpty(route), !.dep_time = OrEmpty(dep_time),
              !.sign_in_time = OrEmpty(sign_in_time), !.updated_at = now]

NewFlightRow(id, fn, route, dep_time, sign_in_time, now) ==
    [id |-> id, flight_number |-> fn, route |-> OrEmpty(route),
     dep_time |-> OrEmpty(dep_time), sign_in_time |-> OrEmpty(sign_in_time),
     created_at |-> now, updated_at |-> now]

\* cur.fetchone() of the SELECT: the first row in rowid order.
FirstIndex(S) == CHOOSE i \in S : \A j \in S : i <= j

\* Mutant of the stored key: trimmed but not upper-cased.
FlightKey_NoUpper(flight_number) == Strip(flight_number)

FlightKey(flight_number) == Upper(Strip(flight_number))

\* Mutant of the upsert: no SELECT, the row is always inserted.
add_or_update_flight_rows_Insert(rows, seq, flight_number, route, dep_time, sign_in_time, now) ==
    Append(rows, NewFlightRow(seq + 1, FlightKey(flight_number), route, dep_time,
                              sign_in_time, now))

add_or_update_flight_rows(rows, seq, flight_number, route, dep_time, sign_in_time, now) ==
    LET fn == FlightKey(flight_number)
        hit == FlightIndex(rows, fn)
    IN  IF hit # {}
        THEN [rows EXCEPT ![FirstIndex(hit)] =
                 UpdateFlightRow(rows[FirstIndex(hit)], route, dep_time, sign_in_time, now)]
        ELSE Append(rows, NewFlightRow(seq + 1, fn, route, dep_time, sign_in_time, now))

\* Mutant of the delete: WHERE id <= ?
DeleteRows_Through(rows, id) == SelectSeq(rows, LAMBDA r : r.id > id)

\* DELETE FROM flight WHERE id = ?
DeleteRows(rows, id) == SelectSeq(rows, LAMBDA r : r.id # id)

----------------------------------------------------------------------------
(* Inputs of the flight operations.                                        *)

CZ3835_6 == <<"C","Z","3","8","3","5","/","6">>
CZ3835 == <<"C","Z","3","8","3","5">>
N3835 == <<"3","8","3","5">>

\* Numbers typed into the "add / edit flight" form.
FlightNumberInputs ==
    { CZ3835_6, CZ3835, N3835,
      <<" ","c","z","3","8","3","5">>,
      <<>>, <<" ">>, None }

\* Numbers typed into the flight-overview form and matched against the table.
FlightQueries ==
    { N3835, CZ3835_6, CZ3835,
      <<"c","z"," ","3","8","3","5">>,
      <<" ","3","8","3","5","/","6"," ">>,
      <<"M","U","9">>, <<"C","Z">>,
      <<>>, <<" ">>, None }

\* (route, dep_time, sign_in_time) as typed; an untouched field is None.
FlightPayloads ==
    { <<None, None, None>>,
      << <<"A","-","B">>, <<"1","3","5","0">>, <<"1","2","2","0">> >> }

----------------------------------------------------------------------------
(* Flight operations.                                                      *)

\* add_or_update_flight(flight_number, route, dep_time, sign_in_time)
add_or_update_flight(flight_number, route, dep_time, sign_in_time) ==
    /\ last' = [op |-> "add_or_update_flight", flight_number |-> flight_number,
                route |-> route, dep_time |-> dep_time, sign_in_time |-> sign_in_time]
    /\ ret' = NoResult
    /\ IF Blank(flight_number)
       THEN UNCHANGED <<flight, flightSeq>>
       ELSE /\ FlightIndex(flight, FlightKey(flight_number)) = {} => flightSeq < MaxFlightId
            /\ \E now \in Times :
                  flight' = add_or_update_flight_rows(flight, flightSeq, flight_number,
                                                      route, dep_time, sign_in_time, now)
            /\ flightSeq' = IF FlightIndex(flight, FlightKey(flight_number)) = {}
                            THEN flightSeq + 1 ELSE flightSeq
    /\ UNCHANGED <<profile, airport, airportSeq, calls>>

\* delete_flight(flight_id)
delete_flight(flight_id) ==
    /\ last' = [op |-> "delete_flight", id |-> flight_id]
    /\ ret' = NoResult
    /\ flight' = DeleteRows(flight, flight_id)
    /\ UNCHANGED <<flightSeq, profile, airport, airportSeq, calls>>

\* The "match flight" button: get_flight_by_number(flight_number)
match_flight(flight_number) ==
    /\ last' = [op |-> "get_flight_by_number", flight_number |-> flight_number]
    /\ ret' = get_flight_by_number(flight, flight_number)
    /\ UNCHANGED <<flight, flightSeq, profile, airport, airportSeq, calls>>

\* Browser sessions, each running its handlers on its own connection.
Sessions == {"s1", "s2"}

\* A session that is not inside add_or_update_flight.
Idle == [pc |-> "idle"]

InitStore ==
    /\ calls = [s \in Sessions |-> Idle]
    /\ profile = <<>>
    /\ airport = <<>>
    /\ airportSeq = 0
    /\ flight = <<>>
    /\ flightSeq = 0
    /\ last = [op |-> "init"]
    /\ ret = NoResult

NextFlight ==
    \/ \E n \in FlightNumberInputs, p \in FlightPayloads :
          add_or_update_flight(n, p[1], p[2], p[3])
    \/ \E id \in 1..MaxFlightId : delete_flight(id)
    \/ \E q \in FlightQueries : match_flight(q)

SpecFlight == InitStore /\ [][NextFlight]_vars

----------------------------------------------------------------------------
(* Properties of the flight table and of the flight matcher.               *)

FlightNumbers == {flight[i].flight_number : i \in 1..Len(flight)}

\* The three match conditions of the matcher, on a stored number fn and the
\* raw input.
MatchCondition(fn, raw) ==
    \/ _normalize_flight_number(fn) = _normalize_flight_number(raw)
    \/ (Len(fn) > 0 /\ Contains(_normalize_flight_number(raw), fn))
    \/ (Len(fn) > 0 /\ Contains(fn, Upper(Strip(raw))))

MatchingRows(raw) ==
    {i \in 1..Len(flight) : MatchCondition(flight[i].flight_number, raw)}

RecordOf(r) ==
    [flight_number |-> r.flight_number, route |-> r.route,
     dep_time |-> r.dep_time, sign_in_time |-> r.sign_in_time]

FlightsNormalized ==
    /\ \A i \in 1..Len(flight) :
          flight[i].flight_number = Upper(Strip(flight[i].flight_number))
    /\ \A i, j \in 1..Len(flight) :
          flight[i].flight_number = flight[j].flight_number => i = j

UpsertExistingOverwrites ==
    (/\ last'.op = "add_or_update_flight"
     /\ ~Blank(last'.flight_number)
     /\ Upper(Strip(last'.flight_number)) \in FlightNumbers)
    => /\ Len(flight') = Len(flight)
       /\ \A i \in 1..Len(flight) :
             IF flight[i].flight_number = Upper(Strip(last'.flight_number))
             THEN /\ flight'[i].id = flight[i].id
                  /\ flight'[i].flight_number = flight[i].flight_number
                  /\ flight'[i].created_at = flight[i].created_at
                  /\ flight'[i].route = OrEmpty(last'.route)
                  /\ flight'[i].dep_time = OrEmpty(last'.dep_time)
                  /\ flight'[i].sign_in_time = OrEmpty(last'.sign_in_time)
             ELSE flight'[i] = flight[i]

\* C4: every stored flight number equals its own trimmed upper-cased form and
\* no two rows share a flight number; an upsert whose trimmed upper-cased
\* number is already stored overwrites that row's route, departure time and
\* sign-in time and adds no row.
C4_FlightKeyUnique == [](FlightsNormalized) /\ [][UpsertExistingOverwrites]_vars

\* An upsert typed in lower case with a leading space has overwritten the
\* row stored under the upper-cased number, next to another row.
C4_Witness ==
    /\ last.op = "add_or_update_flight"
    /\ last.flight_number = <<" ","c","z","3","8","3","5">>
    /\ Len(flight) = 2
    /\ \E i \in 1..Len(flight) :
          /\ flight[i].flight_number = CZ3835
          /\ flight[i].created_at # flight[i].updated_at
          /\ flight[i].route = OrEmpty(last.route)

\* C5: findFlight returns not-found for a blank input or an empty key;
\* otherwise it returns the first row, in scan order, that satisfies one of
\* the three match conditions, and not-found exactly when no row does.
C5_FindFlightFirstMatch ==
    last.op = "get_flight_by_number" =>
        IF Blank(last.flight_number) \/ _normalize_flight_number(last.flight_number) = <<>>
        THEN ret = NoResult
        ELSE IF MatchingRows(last.flight_number) = {}
             THEN ret = NoResult
             ELSE \E i \in MatchingRows(last.flight_number) :
                     /\ \A j \in MatchingRows(last.flight_number) : i <= j
                     /\ ret = Result(RecordOf(flight[i]))

\* A lookup has skipped the first row and returned the second.
C5_Witness ==
    /\ last.op = "get_flight_by_number"
    /\ Len(flight) = 2
    /\ ret # NoResult
    /\ 1 \notin MatchingRows(last.flight_number)
    /\ ret = Result(RecordOf(flight[2]))

\* C6 (as claimed): a lookup by the number a stored flight was saved under
\* returns that flight's own route, departure time and sign-in time.
C6_SavedFlightFound ==
    (last.op = "get_flight_by_number" /\ ~Blank(last.flight_number)) =>
        \A i \in 1..Len(flight) :
            flight[i].flight_number = Upper(Strip(last.flight_number)) =>
                /\ ret # NoResult
                /\ ret[1].route = flight[i].route
                /\ ret[1].dep_time = flight[i].dep_time
                /\ ret[1].sign_in_time = flight[i].sign_in_time

\* C7 (as claimed): with "CZ3835/6" stored, findFlight("3835") returns that
\* record whatever else is stored.
C7_Original ==
    (/\ last.op = "get_flight_by_number"
     /\ last.flight_number = N3835
     /\ CZ3835_6 \in FlightNumbers)
    => (ret # NoResult /\ ret[1].flight_number = CZ3835_6)

\* C7 (amended): with "CZ3835/6" stored, findFlight("3835") always returns a
\* record, and it returns the "CZ3835/6" record when no row earlier in scan
\* order satisfies a match condition.
C7_ForwardContainment ==
    (/\ last.op = "get_flight_by_number"
     /\ last.flight_number = N3835)
    => \A i \in 1..Len(flight) :
          flight[i].flight_number = CZ3835_6 =>
             /\ ret # NoResult
             /\ (\A j \in 1..(i - 1) : ~MatchCondition(flight[j].flight_number, N3835))
                   => ret = Result(RecordOf(flight[i]))

C7_Witness ==
    /\ last.op = "get_flight_by_number"
    /\ last.flight_number = N3835
    /\ Len(flight) >= 1
    /\ flight[1].flight_number = CZ3835_6
    /\ ret = Result(RecordOf(flight[1]))

\* C8 (as claimed): with "CZ3835" stored, findFlight("CZ3835/6") returns that
\* record whatever else is stored.
C8_Original ==
    (/\ last.op = "get_flight_by_number"
     /\ last.flight_number = CZ3835_6
     /\ CZ3835 \in FlightNumbers)
    => (ret # NoResult /\ ret[1].flight_number = CZ3835)

\* C8 (amended): with "CZ3835" stored, findFlight("CZ3835/6") always returns
\* a record, and it returns the "CZ3835" record when no row earlier in scan
\* order satisfies a match condition.
C8_ReverseContainment ==
    (/\ last.op = "get_flight_by_number"
     /\ last.flight_number = CZ3835_6)
    => \A i \in 1..Len(flight) :
          flight[i].flight_number = CZ3835 =>
             /\ ret # NoResult
             /\ (\A j \in 1..(i - 1) : ~MatchCondition(flight[j].flight_number, CZ3835_6))
                   => ret = Result(RecordOf(flight[i]))

C8_Witness ==
    /\ last.op = "get_flight_by_number"
    /\ last.flight_number = CZ3835_6
    /\ Len(flight) >= 1
    /\ flight[1].flight_number = CZ3835
    /\ ret = Result(RecordOf(flight[1]))

----------------------------------------------------------------------------
(* Airport table: rows in rowid order.  airportSeq is the table's          *)
(* sqlite_sequence entry: the INSERT of the upsert takes a new rowid from  *)
(* it before the conflict on airport_name is detected, so every upsert     *)
(* advances it.                                                            *)

AirportIndex(rows, name) == {i \in 1..Len(rows) : rows[i].airport_name = name}

\* Mutant of the upsert: the conflict is ignored and a row is always added.
add_or_update_airport_rows_Insert(rows, seq, airport_name, risks_tips, notams_tips, now) ==
    Append(rows, [id |-> seq + 1, airport_name |-> Strip(airport_name),
                  risks_tips |-> OrEmpty(risks_tips),
                  notams_tips |-> OrEmpty(notams_tips),
                  created_at |-> now, updated_at |-> now])

\* INSERT ... ON CONFLICT(airport_name) DO UPDATE SET risks_tips, notams_tips,
\* updated_at
add_or_update_airport_rows(rows, seq, airport_name, risks_tips, notams_tips, now) ==
    LET name == Strip(airport_name)
        hit == AirportIndex(rows, name)
    IN  IF hit # {}
        THEN [i \in 1..Len(rows) |->
                 IF i \in hit
                 THEN [rows[i] EXCEPT !.risks_tips = OrEmpty(risks_tips),
                                      !.notams_tips = OrEmpty(notams_tips),
                                      !.updated_at = now]
                 ELSE rows[i]]
        ELSE Append(rows, [id |-> seq + 1, airport_name |-> name,
                           risks_tips |-> OrEmpty(risks_tips),
                           notams_tips |-> OrEmpty(notams_tips),
                           created_at |-> now, updated_at |-> now])

\* get_airport_by_name
get_airport_by_name(rows, airport_name) ==
    IF Blank(airport_name) THEN NoResult
    ELSE LET hit == AirportIndex(rows, Strip(airport_name))
         IN  IF hit = {} THEN NoResult
             ELSE Result([airport_name |-> rows[FirstIndex(hit)].airport_name,
                          risks_tips |-> OrEmpty(rows[FirstIndex(hit)].risks_tips),
                          notams_tips |-> OrEmpty(rows[FirstIndex(hit)].notams_tips)])

\* str.split(sep) for a one-character sep: cur is the segment being read.
RECURSIVE SplitFrom(_, _, _)
SplitFrom(s, sep, cur) ==
    IF s = <<>> THEN <<cur>>
    ELSE IF Head(s) = sep
         THEN <<cur>> \o SplitFrom(Tail(s), sep, <<>>)
         ELSE SplitFrom(Tail(s), sep, Append(cur, Head(s)))

Split(s, sep) == SplitFrom(s, sep, <<>>)

\* [p.strip() for p in parts if p.strip()]
RECURSIVE StripNonEmpty(_)
StripNonEmpty(parts) ==
    IF parts = <<>> THEN <<>>
    ELSE (IF Strip(Head(parts)) # <<>> THEN <<Strip(Head(parts))>> ELSE <<>>)
         \o StripNonEmpty(Tail(parts))

\* Mutant of the route parser: the em-dash is not replaced by a hyphen.
ParseRoute_NoEmDash(route) ==
    IF Blank(route) THEN <<>>
    ELSE StripNonEmpty(Split(route, "-"))

\* The first lines of get_risks_for_route and get_notams_for_route: the
\* airport names of a route.
ParseRoute(route) ==
    IF Blank(route) THEN <<>>
    ELSE StripNonEmpty(Split(Replace(route, EmDash, <<"-">>), "-"))

\* f"[{airport_name}\n{text}" with the left lenticular bracket
Block(airport_name, text) == <<LeftBracket>> \o airport_name \o <<"\n">> \o text

\* "\n\n".join(lines)
RECURSIVE Join(_)
Join(lines) ==
    IF lines = <<>> THEN <<>>
    ELSE IF Len(lines) = 1 THEN Head(lines)
         ELSE Head(lines) \o <<"\n", "\n">> \o Join(Tail(lines))

\* Mutant of the loop over the parsed names: a repeated name is looked up again.
RECURSIVE RouteLines_NoSeen(_, _, _, _)
RouteLines_NoSeen(rows, parts, seen, field) ==
    IF parts = <<>> THEN <<>>
    ELSE LET info == get_airport_by_name(rows, Head(parts))
         IN  (IF info # NoResult /\ Truthy(info[1][field])
              THEN <<Block(info[1].airport_name, info[1][field])>>
              ELSE <<>>)
             \o RouteLines_NoSeen(rows, Tail(parts), seen, field)

\* The loop over the parsed names: seen is the set of names already handled.
RECURSIVE RouteLines(_, _, _, _)
RouteLines(rows, parts, seen, field) ==
    IF parts = <<>> THEN <<>>
    ELSE IF Head(parts) \in seen
         THEN RouteLines(rows, Tail(parts), seen, field)
         ELSE LET info == get_airport_by_name(rows, Head(parts))
              IN  (IF info # NoResult /\ Truthy(info[1][field])
                   THEN <<Block(info[1].airport_name, info[1][field])>>
                   ELSE <<>>)
                  \o RouteLines(rows, Tail(parts), seen \cup {Head(parts)}, field)

TextForRoute(rows, route, field) ==
    IF Blank(route) THEN <<>>
    ELSE IF ParseRoute(route) = <<>> THEN <<>>
         ELSE Join(RouteLines(rows, ParseRoute(route), {}, field))

get_risks_for_route(rows, route) == TextForRoute(rows, route, "risks_tips")

get_notams_for_route(rows, route) == TextForRoute(rows, route, "notams_tips")

----------------------------------------------------------------------------
(* Inputs of the airport operations.                                       *)

SY == <<"S","Y">>
PD == <<"P","D">>

\* Names typed into the "add airport" form.
AirportNameInputs == { SY, <<" ","S","Y">>, PD, <<>>, <<" ">>, None }

\* (risks_tips, notams_tips) as typed.
AirportTexts ==
    { <<None, None>>, << <<"w">>, <<>> >>, << <<>>, <<"n">> >>, << <<"r">>, <<"m">> >> }

AirportQueries == { SY, <<" ","S","Y"," ">>, PD, <<"X">>, <<>>, None }

\* Routes typed into the flight-overview form.
RouteInputs ==
    { <<"S","Y","-","P","D","-","S","Y">>,
      <<"S","Y",EmDash,"P","D">>,
      <<" ","P","D"," ","-"," ","S","Y"," ">>,
      <<"P","D","-","-","S","Y",EmDash>>,
      <<"X","-","S","Y">>,
      <<"X","-","Y">>,
      <<"-">>, <<>>, <<" ">>, None }

----------------------------------------------------------------------------
(* Airport operations.                                                     *)

\* The "save airport" button and add_or_update_airport
save_airport(ap_name, ap_risks, ap_notams) ==
    /\ last' = [op |-> "save_airport", airport_name |-> ap_name,
                risks_tips |-> ap_risks, notams_tips |-> ap_notams]
    /\ ret' = NoResult
    /\ IF Blank(ap_name)
       THEN UNCHANGED <<airport, airportSeq>>
       ELSE /\ airportSeq < MaxAirportId
            /\ \E now \in Times :
                  airport' = add_or_update_airport_rows(airport, airportSeq, Strip(ap_name),
                                                        ap_risks, ap_notams, now)
            /\ airportSeq' = airportSeq + 1
    /\ UNCHANGED <<profile, flight, flightSeq, calls>>

\* delete_airport(airport_id)
delete_airport(airport_id) ==
    /\ last' = [op |-> "delete_airport", id |-> airport_id]
    /\ ret' = NoResult
    /\ airport' = DeleteRows(airport, airport_id)
    /\ UNCHANGED <<airportSeq, profile, flight, flightSeq, calls>>

\* get_airport_by_name(airport_name)
airport_by_name(airport_name) ==
    /\ last' = [op |-> "get_airport_by_name", airport_name |-> airport_name]
    /\ ret' = get_airport_by_name(airport, airport_name)
    /\ UNCHANGED <<airport, airportSeq, profile, flight, flightSeq, calls>>

\* The "load route risks" button: get_risks_for_route and get_notams_for_route
load_route_risks(route) ==
    /\ last' = [op |-> "load_route_risks", route |-> route]
    /\ ret' = Result([risks |-> get_risks_for_route(airport, route),
                      notams |-> get_notams_for_route(airport, route)])
    /\ UNCHANGED <<airport, airportSeq, profile, flight, flightSeq, calls>>

NextAirport ==
    \/ \E n \in AirportNameInputs, t \in AirportTexts : save_airport(n, t[1], t[2])
    \/ \E id \in 1..MaxAirportId : delete_airport(id)
    \/ \E q \in AirportQueries : airport_by_name(q)
    \/ \E r \in RouteInputs : load_route_risks(r)

SpecAirport == InitStore /\ [][NextAirport]_vars

----------------------------------------------------------------------------
(* Properties of the airport table, the route parser and the aggregator.   *)

AirportNames == {airport[i].airport_name : i \in 1..Len(airport)}

AirportsUnique ==
    \A i, j \in 1..Len(airport) :
        Strip(airport[i].airport_name) = Strip(airport[j].airport_name) => i = j

UpsertAirportKeepsCount ==
    (/\ last'.op = "save_airport"
     /\ ~Blank(last'.airport_name)
     /\ Strip(last'.airport_name) \in AirportNames)
    => Len(airport') = Len(airport)

LookupAfterUpsert ==
    (/\ last.op = "save_airport"
     /\ ~Blank(last.airport_name)
     /\ last'.op = "get_airport_by_name"
     /\ ~Blank(last'.airport_name)
     /\ Strip(last'.airport_name) = Strip(last.airport_name))
    => ret' = Result([airport_name |-> Strip(last.airport_name),
                      risks_tips |-> OrEmpty(last.risks_tips),
                      notams_tips |-> OrEmpty(last.notams_tips)])

\* C1: no two stored airports have the same trimmed name; an upsert on a
\* stored name leaves the number of rows unchanged, and a lookup of that name
\* right after it returns the risks and notices just written.
C1_AirportUpsert ==
    [](AirportsUnique) /\ [][UpsertAirportKeepsCount /\ LookupAfterUpsert]_vars

\* A lookup has returned the texts of a row that was overwritten after it was
\* created, with another airport stored next to it.
C1_Witness ==
    /\ last.op = "get_airport_by_name"
    /\ ret # NoResult
    /\ Len(airport) = 2
    /\ \E i \in 1..Len(airport) :
          /\ airport[i].airport_name = Strip(last.airport_name)
          /\ airport[i].created_at # airport[i].updated_at
          /\ airport[i].risks_tips = <<"r">>
          /\ ret[1].risks_tips = <<"r">>
          /\ ret[1].notams_tips = <<"m">>

\* The stored text of an airport, empty when the airport is not stored.
StoredText(name, field) ==
    IF name \in AirportNames
    THEN (CHOOSE r \in {airport[i] : i \in 1..Len(airport)} : r.airport_name = name)[field]
    ELSE <<>>

\* Positions of the parsed names that are first occurrences of an airport
\* stored with a non-empty text.
Contributing(parts, field) ==
    {i \in 1..Len(parts) :
        /\ \A j \in 1..(i - 1) : parts[j] # parts[i]
        /\ StoredText(parts[i], field) # <<>>}

RECURSIVE BlocksFrom(_, _, _)
BlocksFrom(parts, field, i) ==
    IF i > Len(parts) THEN <<>>
    ELSE (IF i \in Contributing(parts, field)
          THEN <<Block(parts[i], StoredText(parts[i], field))>>
          ELSE <<>>)
         \o BlocksFrom(parts, field, i + 1)

\* The first n blocks, each two separated by a blank line.
RECURSIVE BlankLineJoined(_, _)
BlankLineJoined(blocks, n) ==
    IF n = 0 THEN <<>>
    ELSE IF n = 1 THEN blocks[1]
         ELSE BlankLineJoined(blocks, n - 1) \o <<"\n", "\n">> \o blocks[n]

ExpectedText(route, field) ==
    BlankLineJoined(BlocksFrom(ParseRoute(route), field, 1),
                    Len(BlocksFrom(ParseRoute(route), field, 1)))

\* C9: the aggregate is one block per distinct parsed airport stored with a
\* non-empty requested text, in order of first occurrence, joined by a blank
\* line; it is empty when no airport contributes.
C9_Aggregate ==
    last.op = "load_route_risks" =>
        /\ ret[1].risks = ExpectedText(last.route, "risks_tips")
        /\ ret[1].notams = ExpectedText(last.route, "notams_tips")
        /\ (Contributing(ParseRoute(last.route), "risks_tips") = {} => ret[1].risks = <<>>)
        /\ (Contributing(ParseRoute(last.route), "notams_tips") = {} => ret[1].notams = <<>>)

\* The round trip SY-PD-SY with both airports stored has produced SY's block
\* and then PD's block, once each.
C9_Witness ==
    /\ last.op = "load_route_risks"
    /\ last.route = <<"S","Y","-","P","D","-","S","Y">>
    /\ ret[1].risks = <<LeftBracket,"S","Y","\n","w","\n","\n",LeftBracket,"P","D","\n","r">>
    /\ ret[1].notams = <<LeftBracket,"P","D","\n","m">>

\* The route with every em-dash written as a hyphen.
Hyphenated(raw) == [i \in 1..Len(raw) |-> IF raw[i] = EmDash THEN "-" ELSE raw[i]]

\* The k-th of the strings that the hyphens of s separate.
HyphenPositions(s) == {i \in 1..Len(s) : s[i] = "-"}

SegmentStart(s, k) ==
    IF k = 1 THEN 1
    ELSE 1 + CHOOSE i \in HyphenPositions(s) :
                Cardinality({j \in HyphenPositions(s) : j <= i}) = k - 1

SegmentEnd(s, k) ==
    IF k = Cardinality(HyphenPositions(s)) + 1 THEN Len(s)
    ELSE (CHOOSE i \in HyphenPositions(s) :
             Cardinality({j \in HyphenPositions(s) : j <= i}) = k) - 1

TrimmedSegments(s) ==
    [k \in 1..(Cardinality(HyphenPositions(s)) + 1) |->
        Strip(SubSeq(s, SegmentStart(s, k), SegmentEnd(s, k)))]

ExpectedParts(raw) ==
    IF raw = None THEN <<>>
    ELSE SelectSeq(TrimmedSegments(Hyphenated(raw)), LAMBDA p : p # <<>>)

\* C10: parseRoute returns the trimmed non-empty hyphen-separated segments in
\* order, duplicates kept, nothing for a blank input, and the same for a
\* route whose em-dashes are written as hyphens.
C10_ParseRoute ==
    last.op = "load_route_risks" =>
        /\ ParseRoute(last.route) = ExpectedParts(last.route)
        /\ (Blank(last.route) => ParseRoute(last.route) = <<>>)
        /\ (last.route # None =>
               ParseRoute(Hyphenated(last.route)) = ParseRoute(last.route))

\* A route with a doubled hyphen and a trailing em-dash has been parsed into
\* its two names, and both stored airports have contributed.
C10_Witness ==
    /\ last.op = "load_route_risks"
    /\ last.route = <<"P","D","-","-","S","Y",EmDash>>
    /\ ParseRoute(last.route) = <<PD, SY>>
    /\ ret[1].risks = <<LeftBracket,"P","D","\n","r","\n","\n",LeftBracket,"S","Y","\n","w">>

----------------------------------------------------------------------------
(* Inputs of the profile operations.                                       *)

ProfileA ==
    [name |-> "Li", tech_level |-> "B", radio_qual |-> "no",
     total_landings |-> 120, total_hours |-> 3505,
     type_landings |-> 80, type_hours |-> 2100,
     previous_aircraft |-> "B737", app_alert |-> "no", efb_status |-> "charged",
     last_pf_time |-> "2026-01-02 / A320", landing_quality |-> "normal",
     pickup_location |-> "company"]

ProfileB ==
    [name |-> "Wu", tech_level |-> "C", radio_qual |-> "yes",
     total_landings |-> 0, total_hours |-> 15,
     type_landings |-> 7, type_hours |-> 9,
     previous_aircraft |-> "", app_alert |-> "yes", efb_status |-> "",
     last_pf_time |-> "2026-02-03 / A321", landing_quality |-> "",
     pickup_location |-> "hotel"]

\* The keys a caller may give: all of them, all but one, the numbers only,
\* two, one, none.
ProfileKeySets ==
    { ProfileColumns, ProfileColumns \ {"last_pf_time"},
      {"total_landings", "total_hours", "type_landings", "type_hours"},
      {"name", "total_landings"}, {"last_pf_time"}, {} }

ProfileInputs ==
    { [k \in keys |-> base[k]] : base \in {ProfileA, ProfileB}, keys \in ProfileKeySets }

LastPfTimeInputs == { "2026-03-04 / A320", "2026-05-06 / A321", "" }

----------------------------------------------------------------------------
(* Profile operations.                                                     *)

\* save_profile(data)
save_profile(data) ==
    /\ last' = [op |-> "save_profile", data |-> data]
    /\ ret' = NoResult
    /\ \E now \in Times : profile' = save_profile_rows(profile, data, now)
    /\ UNCHANGED <<airport, airportSeq, flight, flightSeq, calls>>

\* update_last_pf_time(last_pf_time)
update_last_pf_time(last_pf_time) ==
    /\ last' = [op |-> "update_last_pf_time", last_pf_time |-> last_pf_time]
    /\ ret' = NoResult
    /\ \E now \in Times : profile' = update_last_pf_time_rows(profile, last_pf_time, now)
    /\ UNCHANGED <<airport, airportSeq, flight, flightSeq, calls>>

\* get_profile()
load_profile ==
    /\ last' = [op |-> "get_profile"]
    /\ ret' = get_profile(profile)
    /\ UNCHANGED <<profile, airport, airportSeq, flight, flightSeq, calls>>

NextProfile ==
    \/ \E data \in ProfileInputs : save_profile(data)
    \/ \E t \in LastPfTimeInputs : update_last_pf_time(t)
    \/ load_profile

SpecProfile == InitStore /\ [][NextProfile]_vars

----------------------------------------------------------------------------
(* Properties of the profile table.                                        *)

SavedProfileStored ==
    last.op = "save_profile" =>
        /\ Len(profile) = 1
        /\ \A k \in ProfileColumns :
              profile[1][k] = IF k \in DOMAIN last.data THEN <<last.data[k]>> ELSE <<>>

\* C2: at most one profile row exists, and after saveProfile(P) every column
\* but the timestamp holds P's value, or nothing where P gives none.
C2_ProfileSingleRow == Len(profile) <= 1 /\ SavedProfileStored

\* A save that gives only two fields has stored them and left every other
\* column empty.
C2_Witness ==
    /\ last.op = "save_profile"
    /\ DOMAIN last.data = {"name", "total_landings"}
    /\ Len(profile) = 1
    /\ profile[1].name = <<"Wu">>
    /\ profile[1].total_landings = <<0>>
    /\ profile[1].last_pf_time = <<>>
    /\ profile[1].pickup_location = <<>>

UpdateLastPfTimeFrame ==
    last'.op = "update_last_pf_time" =>
        /\ Len(profile') = 1
        /\ profile'[1].id = 1
        /\ profile'[1].last_pf_time = <<last'.last_pf_time>>
        /\ \A k \in ProfileColumns \ {"last_pf_time"} :
              profile'[1][k] = IF Len(profile) = 1 THEN profile[1][k] ELSE <<>>

\* C3: updateLastFlightTime(text) sets the last-primary-flying column to text
\* and leaves every other column but the timestamp as it was; with no row
\* stored it creates the row with every other column empty.
C3_UpdateLastPfTime == [][UpdateLastPfTimeFrame]_vars

\* The narrow update has changed the last-primary-flying column of a fully
\* saved profile.
C3_Witness ==
    /\ last.op = "update_last_pf_time"
    /\ last.last_pf_time = "2026-05-06 / A321"
    /\ Len(profile) = 1
    /\ profile[1].name = <<"Li">>
    /\ profile[1].total_hours = <<3505>>
    /\ profile[1].last_pf_time = <<"2026-05-06 / A321">>

\* The narrow update has created the row.
C3_WitnessInsert ==
    /\ last.op = "update_last_pf_time"
    /\ Len(profile) = 1
    /\ profile[1].name = <<>>
    /\ profile[1].last_pf_time = <<last.last_pf_time>>

----------------------------------------------------------------------------
(* The flight-number normalizer on its own: the input is drawn at the      *)
(* start, normalized, and the key is normalized once more.                 *)

\* Longest string of the enumerated inputs.
MaxNumberLen == 4

NumberAlphabet == {"C", "Z", "c", "z", "3", " ", Tab}

NormalizeInputs ==
    UNION {[1..n -> NumberAlphabet] : n \in 0..MaxNumberLen}
    \cup FlightQueries \cup FlightNumberInputs \cup NonStrings

InitNormalize ==
    /\ calls = [s \in Sessions |-> Idle]
    /\ profile = <<>>
    /\ airport = <<>>
    /\ airportSeq = 0
    /\ flight = <<>>
    /\ flightSeq = 0
    /\ last \in {[op |-> "input", num |-> x] : x \in NormalizeInputs}
    /\ ret = NoResult

\* key = _normalize_flight_number(num)
normalize_once ==
    /\ last.op = "input"
    /\ last' = [op |-> "_normalize_flight_number", num |-> last.num]
    /\ ret' = Result(_normalize_flight_number(last.num))
    /\ UNCHANGED <<profile, airport, airportSeq, flight, flightSeq, calls>>

\* _normalize_flight_number(key), as the scan applies it to a stored number
normalize_twice ==
    /\ last.op = "_normalize_flight_number"
    /\ last' = [op |-> "normalize_twice", num |-> last.num, once |-> ret[1]]
    /\ ret' = Result(_normalize_flight_number(ret[1]))
    /\ UNCHANGED <<profile, airport, airportSeq, flight, flightSeq, calls>>

NextNormalize == normalize_once \/ normalize_twice

SpecNormalize == InitNormalize /\ [][NextNormalize]_vars

----------------------------------------------------------------------------
(* Properties of the normalizer.                                           *)

\* s without its leading and trailing whitespace.
Trimmed(s) ==
    LET solid == {i \in 1..Len(s) : s[i] \notin Whitespace}
    IN  IF solid = {} THEN <<>>
        ELSE SubSeq(s, CHOOSE i \in solid : \A j \in solid : i <= j,
                       CHOOSE i \in solid : \A j \in solid : j <= i)

\* raw trimmed, upper-cased, spaces removed.
Cleaned(raw) == SelectSeq(Upper(Trimmed(raw)), LAMBDA c : c # " ")

CarrierCodes ==
    { <<"C","Z">>, <<"M","U">>, <<"C","A">>, <<"3","U">>, <<"M","F">>, <<"H","U">> }

HasCarrierCode(s) == Len(s) >= 2 /\ SubSeq(s, 1, 2) \in CarrierCodes

\* The key as the claim words it: the code removed, nothing else.
ClaimedKey(raw) ==
    IF HasCarrierCode(Cleaned(raw))
    THEN SubSeq(Cleaned(raw), 3, Len(Cleaned(raw)))
    ELSE Cleaned(raw)

\* The key with the remainder trimmed again after the code is removed.
RetrimmedKey(raw) ==
    IF HasCarrierCode(Cleaned(raw))
    THEN Trimmed(SubSeq(Cleaned(raw), 3, Len(Cleaned(raw))))
    ELSE Cleaned(raw)

FlipCase(c) ==
    CASE c = "c" -> "C"
      [] c = "C" -> "c"
      [] c = "z" -> "Z"
      [] c = "Z" -> "z"
      [] OTHER -> c

\* Inputs that differ from raw in the case of one letter, in one whitespace
\* character at either end, or in one space between two characters.
SpellingVariants(raw) ==
    {[raw EXCEPT ![i] = FlipCase(raw[i])] : i \in 1..Len(raw)}
    \cup {<<w>> \o raw : w \in Whitespace}
    \cup {raw \o <<w>> : w \in Whitespace}
    \cup {SubSeq(raw, 1, i) \o <<" ">> \o SubSeq(raw, i + 1, Len(raw)) : i \in 1..(Len(raw) - 1)}

\* raw with a carrier code written in front.
PrefixVariants(raw) == {code \o raw : code \in CarrierCodes}

NormalizedString == last.op = "_normalize_flight_number" /\ IsStr(last.num)

\* C11 (as claimed): the key is the cleaned input with one leading carrier
\* code removed, and inputs that differ only in case, whitespace, spaces or
\* the presence of a carrier code have the same key.
C11_Original ==
    NormalizedString =>
        /\ ret[1] = ClaimedKey(last.num)
        /\ \A v \in SpellingVariants(last.num) \cup PrefixVariants(last.num) :
              _normalize_flight_number(v) = ret[1]

\* C11 (amended): the key is the cleaned input with one leading carrier code
\* removed and the remainder trimmed again; inputs that differ only in case,
\* surrounding whitespace or internal spaces have the same key, and so has
\* an input with a carrier code written in front when the cleaned input does
\* not itself start with one.
C11_Normalize ==
    NormalizedString =>
        /\ ret[1] = RetrimmedKey(last.num)
        /\ \A v \in SpellingVariants(last.num) : _normalize_flight_number(v) = ret[1]
        /\ ~HasCarrierCode(Cleaned(last.num)) =>
              \A v \in PrefixVariants(last.num) : _normalize_flight_number(v) = ret[1]
        /\ (last.num \in {CZ3835, <<"c","z"," ","3","8","3","5">>} => ret[1] = N3835)

\* "cz 3835" has been normalized to "3835".
C11_Witness ==
    /\ last.op = "_normalize_flight_number"
    /\ last.num = <<"c","z"," ","3","8","3","5">>
    /\ ret = Result(N3835)

\* C12 (as claimed): normalizing a key again returns the same key.
C12_Original == last.op = "normalize_twice" => ret[1] = last.once

\* C12 (amended): normalizing a key again returns the same key when the key
\* does not itself start with a carrier code.
C12_Idempotent ==
    (last.op = "normalize_twice" /\ ~HasCarrierCode(last.once)) => ret[1] = last.once

\* A key that lost its carrier code has been normalized again, unchanged.
C12_Witness ==
    /\ last.op = "normalize_twice"
    /\ last.num = <<"c","z"," ","3","8","3","5">>
    /\ last.once = N3835
    /\ ret = Result(N3835)

\* C13: the normalizer never raises; it returns the empty string for an empty
\* input, for None and for a value that is not a string, and a string for
\* every other input.
C13_NormalizeTotal ==
    last.op = "_normalize_flight_number" =>
        /\ ret[1] # Raised
        /\ IsStr(ret[1])
        /\ \A i \in 1..Len(ret[1]) : ret[1][i] \in NumberAlphabet \cup {"M", "U", "8", "5", "6", "9", "/"}
        /\ (last.num \in NonStrings \cup {<<>>} => ret[1] = <<>>)

\* An int has been normalized to the empty string.
C13_Witness ==
    /\ last.op = "_normalize_flight_number"
    /\ last.num = IntNumber
    /\ ret = Result(<<>>)

-----------------------------------------------------------------------------
(* Every handler that writes a flight or an airport, on both tables at     *)
(* once.                                                                   *)

\* The "save changes" button of a stored airport and add_or_update_airport
edit_airport(edit_name, edit_risks, edit_notams) ==
    /\ last' = [op |-> "edit_airport", airport_name |-> edit_name,
                risks_tips |-> edit_risks, notams_tips |-> edit_notams]
    /\ ret' = NoResult
    /\ airport # <<>>
    /\ IF Blank(edit_name)
       THEN UNCHANGED <<airport, airportSeq>>
       ELSE /\ airportSeq < MaxAirportId
            /\ \E now \in Times :
                  airport' = add_or_update_airport_rows(airport, airportSeq, Strip(edit_name),
                                                        edit_risks, edit_notams, now)
            /\ airportSeq' = airportSeq + 1
    /\ UNCHANGED <<profile, flight, flightSeq, calls>>

\* Flight numbers typed into the flight forms.
SaveFlightNumbers == { CZ3835, <<" ","c","z","3","8","3","5">>, <<>>, <<" ">>, <<Tab, " ">>, None }

\* Airport names typed into the airport forms.
SaveAirportNames == { SY, <<" ","S","Y">>, PD, <<>>, <<" ">>, <<Tab, " ">>, None }

\* (risks_tips, notams_tips) typed into the airport forms.
SaveAirportTexts == { <<None, None>>, << <<"r">>, <<"m">> >> }

NextSave ==
    \/ \E n \in SaveFlightNumbers :
          add_or_update_flight(n, <<"A","-","B">>, None, None)
    \/ \E n \in SaveAirportNames, t \in SaveAirportTexts : save_airport(n, t[1], t[2])
    \/ \E n \in SaveAirportNames, t \in SaveAirportTexts : edit_airport(n, t[1], t[2])

SpecSave == InitStore /\ [][NextSave]_vars

\* Empty or made of whitespace only.
WhitespaceOnly(s) == \A i \in 1..Len(s) : s[i] \in Whitespace

\* The required field of the last save was missing or blank.
BlankSave ==
    \/ /\ last.op = "add_or_update_flight"
       /\ (last.flight_number = None \/ WhitespaceOnly(last.flight_number))
    \/ /\ last.op \in {"save_airport", "edit_airport"}
       /\ (last.airport_name = None \/ WhitespaceOnly(last.airport_name))

NoBlankKeyStored ==
    /\ \A i \in 1..Len(flight) : ~WhitespaceOnly(flight[i].flight_number)
    /\ \A i \in 1..Len(airport) : ~WhitespaceOnly(airport[i].airport_name)

BlankSaveRejected ==
    /\ BlankSave' => UNCHANGED <<profile, airport, airportSeq, flight, flightSeq>>
    /\ NoBlankKeyStored'

\* C14: a save whose flight number or airport name is missing, empty or
\* whitespace-only leaves every table as it was, and after any sequence of
\* saves no stored flight has a blank number and no stored airport a blank
\* name.
C14_BlankSaveRejected == [][BlankSaveRejected]_vars

\* A whitespace-only airport name was just refused while both tables hold rows.
C14_Witness ==
    /\ last.op = "save_airport"
    /\ last.airport_name = <<Tab, " ">>
    /\ Len(airport) = 2
    /\ Len(flight) = 1

-----------------------------------------------------------------------------
(* add_or_update_flight run by two sessions at once.  Each call opens its  *)
(* own connection; its SELECT reads the committed table, and its UPDATE or *)
(* INSERT is committed at once, so a call is two steps: the SELECT, then   *)
(* the write.                                                              *)

\* Flight numbers typed by the sessions.
SessionNumbers == { CZ3835, <<" ","c","z","3","8","3","5">>, N3835, <<" ">> }

\* Lines 268-274: the blank guard, then now and fn.
begin_upsert(s, flight_number, route, dep_time, sign_in_time) ==
    /\ calls[s].pc = "idle"
    /\ last' = [op |-> "begin_upsert", session |-> s, flight_number |-> flight_number]
    /\ ret' = NoResult
    /\ IF Blank(flight_number)
       THEN UNCHANGED calls
       ELSE \E now \in Times :
               calls' = [calls EXCEPT ![s] =
                           [pc |-> "select", fn |-> FlightKey(flight_number), route |-> route,
                            dep_time |-> dep_time, sign_in_time |-> sign_in_time, now |-> now]]
    /\ UNCHANGED <<profile, airport, airportSeq, flight, flightSeq>>

\* row = cur.fetchone() of SELECT id FROM flight WHERE flight_number = ?
SelectFlightId(rows, fn) ==
    IF FlightIndex(rows, fn) = {} THEN NoResult
    ELSE Result(rows[FirstIndex(FlightIndex(rows, fn))].id)

\* Lines 275-276: the existence check.
select_flight(s) ==
    /\ calls[s].pc = "select"
    /\ last' = [op |-> "select_flight", session |-> s]
    /\ ret' = NoResult
    /\ calls' = [calls EXCEPT ![s] =
                   [pc |-> "write", fn |-> calls[s].fn, route |-> calls[s].route,
                    dep_time |-> calls[s].dep_time, sign_in_time |-> calls[s].sign_in_time,
                    now |-> calls[s].now, row |-> SelectFlightId(flight, calls[s].fn)]]
    /\ UNCHANGED <<profile, airport, airportSeq, flight, flightSeq>>

\* Mutant of the write: it looks the number up again in the table it writes.
write_flight_rows_Atomic(rows, seq, row, fn, route, dep_time, sign_in_time, now) ==
    add_or_update_flight_rows(rows, seq, fn, route, dep_time, sign_in_time, now)

\* if row: UPDATE ... WHERE id = row[0]; else: INSERT
write_flight_rows(rows, seq, row, fn, route, dep_time, sign_in_time, now) ==
    IF row # NoResult
    THEN [i \in 1..Len(rows) |->
             IF rows[i].id = row[1]
             THEN UpdateFlightRow(rows[i], route, dep_time, sign_in_time, now)
             ELSE rows[i]]
    ELSE Append(rows, NewFlightRow(seq + 1, fn, route, dep_time, sign_in_time, now))

\* Lines 277-283: the write chosen by the row the SELECT returned, and commit.
write_flight(s) ==
    /\ calls[s].pc = "write"
    /\ calls[s].row = NoResult => flightSeq < MaxFlightId
    /\ last' = [op |-> "write_flight", session |-> s, fn |-> calls[s].fn, row |-> calls[s].row]
    /\ ret' = NoResult
    /\ flight' = write_flight_rows(flight, flightSeq, calls[s].row, calls[s].fn, calls[s].route,
                                   calls[s].dep_time, calls[s].sign_in_time, calls[s].now)
    /\ flightSeq' = IF calls[s].row = NoResult THEN flightSeq + 1 ELSE flightSeq
    /\ calls' = [calls EXCEPT ![s] = Idle]
    /\ UNCHANGED <<profile, airport, airportSeq>>

NextSessions ==
    \/ \E s \in Sessions, n \in SessionNumbers :
          begin_upsert(s, n, <<"A","-","B">>, None, None)
    \/ \E s \in Sessions : select_flight(s)
    \/ \E s \in Sessions : write_flight(s)
    \/ \E id \in 1..MaxFlightId : delete_flight(id)

SpecSessions == InitStore /\ [][NextSessions]_vars

\* Two stored rows carry the same flight number.
SameNumberTwice ==
    \E i, j \in 1..Len(flight) : i < j /\ flight[i].flight_number = flight[j].flight_number

\* A call whose existence check found nothing writes although the number has
\* been stored since.
StaleInsert ==
    /\ last'.op = "write_flight"
    /\ last'.row = NoResult
    /\ \E i \in 1..Len(flight) : flight[i].flight_number = last'.fn

InterleavedUpsert ==
    /\ StaleInsert => (SameNumberTwice' /\ Len(flight') = Len(flight) + 1)
    /\ (~SameNumberTwice /\ SameNumberTwice') => StaleInsert

\* C15: the flight upsert is not atomic: a call that passed the existence
\* check before another call for the same number inserted still inserts, so
\* the table then holds two rows for that number; and this interleaving is
\* the only way two rows for one number arise.
C15_UpsertNotAtomic == [][InterleavedUpsert]_vars

\* Both calls have returned and left two rows for one flight number.
C15_Witness ==
    /\ SameNumberTwice
    /\ last.op = "write_flight"
    /\ last.row = NoResult
    /\ \A s \in Sessions : calls[s] = Idle

-----------------------------------------------------------------------------
(* The three upserts, on all three tables, with no delete in between.      *)

\* (flight_number, (route, dep_time, sign_in_time)) of the flight saves; 3835
\* is saved by one call only.
WriteFlightCalls ==
    { <<CZ3835, <<None, None, None>> >>,
      <<CZ3835, << <<"A","-","B">>, <<"1","3","5","0">>, <<"1","2","2","0">> >> >>,
      << <<" ","c","z","3","8","3","5">>, <<None, None, None>> >>,
      <<N3835, << <<"A","-","B">>, None, None>> >> }

\* (airport_name, risks_tips, notams_tips) of the airport saves.
WriteAirportCalls ==
    { <<SY, None, None>>, <<SY, <<"r">>, <<"m">> >>, << <<" ","S","Y">>, <<"r">>, <<"m">> >> }

\* data of the profile saves.
WriteProfileCalls == { ProfileA, [k \in {"name", "total_landings"} |-> ProfileB[k]] }

NextWrites ==
    \/ \E c \in WriteFlightCalls : add_or_update_flight(c[1], c[2][1], c[2][2], c[2][3])
    \/ \E c \in WriteAirportCalls : save_airport(c[1], c[2], c[3])
    \/ \E data \in WriteProfileCalls : save_profile(data)

SpecWrites == InitStore /\ [][NextWrites]_vars

\* The rows of a table with their updated_at column left out.
WithoutUpdatedAt(rows) ==
    [i \in 1..Len(rows) |-> [k \in DOMAIN rows[i] \ {"updated_at"} |-> rows[i][k]]]

\* The step repeats the write that was made just before it, arguments and all.
ReissuedWrite ==
    /\ last.op \in {"add_or_update_flight", "save_airport", "save_profile"}
    /\ last' = last

ReissueKeepsRows ==
    ReissuedWrite =>
        /\ WithoutUpdatedAt(flight') = WithoutUpdatedAt(flight)
        /\ WithoutUpdatedAt(airport') = WithoutUpdatedAt(airport)
        /\ WithoutUpdatedAt(profile') = WithoutUpdatedAt(profile)

\* C16: making the same flight, airport or profile save a second time, right
\* after the first, leaves every table with the same rows, the same ids and
\* the same column values as the first left them, updated_at excepted.  (The
\* tables' rows are compared; the airport table's AUTOINCREMENT counter is
\* not a row and advances on the second save too.)
C16_ReissueSafe == [][ReissueKeepsRows]_vars

\* 3835 is the only row ever stored, written at T1 and written again at T2 by
\* the one call that saves it.
C16_Witness ==
    /\ last.op = "add_or_update_flight"
    /\ last.flight_number = N3835
    /\ Len(flight) = 1
    /\ flightSeq = 1
    /\ flight[1].created_at = "T1"
    /\ flight[1].updated_at = "T2"
    /\ airportSeq = 0
    /\ profile = <<>>

-----------------------------------------------------------------------------
(* Deletes by id, and the airport lookups that follow them, on a store     *)
(* that two airport saves, two flight saves and a profile save have filled.*)

\* The airport table after add_or_update_airport for first, then for second.
SavedAirports(first, second) ==
    add_or_update_airport_rows(
        add_or_update_airport_rows(<<>>, 0, first, <<"r">>, <<"m">>, "T1"),
        1, second, <<"w">>, <<"n">>, "T2")

\* The flight table after add_or_update_flight for first, then for second.
SavedFlights(first, second) ==
    add_or_update_flight_rows(
        add_or_update_flight_rows(<<>>, 0, first, <<"A","-","B">>, None, None, "T1"),
        1, second, None, <<"1","3","5","0">>, None, "T2")

InitDeletes ==
    /\ calls = [s \in Sessions |-> Idle]
    /\ profile = save_profile_rows(<<>>, ProfileA, "T1")
    /\ airport \in {SavedAirports(SY, PD), SavedAirports(PD, SY)}
    /\ airportSeq = 2
    /\ flight \in {SavedFlights(CZ3835, N3835), SavedFlights(N3835, CZ3835)}
    /\ flightSeq = 2
    /\ last = [op |-> "init"]
    /\ ret = NoResult

NextDeletes ==
    \/ \E id \in 1..MaxAirportId : delete_airport(id)
    \/ \E id \in 1..MaxFlightId : delete_flight(id)
    \/ \E q \in {SY, PD} : airport_by_name(q)
    \/ \E route \in {SY, <<"S","Y","-","P","D","-","S","Y">>} : load_route_risks(route)

SpecDeletes == InitDeletes /\ [][NextDeletes]_vars

\* The positions of the rows whose id is not the given one.
Kept(rows, id) == {i \in 1..Len(rows) : rows[i].id # id}

\* new holds the rows of old whose id is not the given one, each once, as
\* they were and in the same (rowid) order, and nothing else.
ExactlyRemoved(old, new, id) ==
    /\ Len(new) = Cardinality(Kept(old, id))
    /\ \A i \in 1..Len(new) : \E j \in Kept(old, id) : new[i] = old[j]
    /\ \A j \in Kept(old, id) : \E i \in 1..Len(new) : new[i] = old[j]
    /\ \A i, j \in 1..Len(new) : i < j => new[i].id < new[j].id
    /\ Kept(old, id) = 1..Len(old) => new = old

\* The block header the aggregation writes for an airport.
Header(name) == <<LeftBracket>> \o name \o <<"\n">>

\* Neither lookup finds the name in the rows.
LookupMiss(rows, name) ==
    /\ get_airport_by_name(rows, name) = NoResult
    /\ \A route \in RouteInputs \cup {name} :
          /\ ~Contains(Header(name), get_risks_for_route(rows, route))
          /\ ~Contains(Header(name), get_notams_for_route(rows, route))
    /\ get_risks_for_route(rows, name) = <<>>
    /\ get_notams_for_route(rows, name) = <<>>

DeleteRemovesOneRow ==
    /\ last'.op = "delete_airport" =>
          /\ ExactlyRemoved(airport, airport', last'.id)
          /\ UNCHANGED <<flight, profile>>
          /\ \A i \in 1..Len(airport) :
                airport[i].id = last'.id => LookupMiss(airport', airport[i].airport_name)
    /\ last'.op = "delete_flight" =>
          /\ ExactlyRemoved(flight, flight', last'.id)
          /\ UNCHANGED <<airport, profile>>
    /\ (/\ last'.op = "get_airport_by_name"
        /\ \A i \in 1..Len(airport') : airport'[i].airport_name # last'.airport_name)
       => ret' = NoResult

\* C17: delete_airport(id) and delete_flight(id) remove the row with that id
\* and no other, leave the rows of the other tables and the profile as they
\* were, and change nothing when no row has the id; the name of a deleted
\* airport is then a miss for get_airport_by_name and contributes no block to
\* the aggregated risks and notices.
C17_DeleteFrame == [][DeleteRemovesOneRow]_vars

\* Airport 1 has been deleted: airport 2, a flight and the profile are still
\* stored.
C17_Witness ==
    /\ last.op = "delete_airport"
    /\ last.id = 1
    /\ Len(airport) = 1
    /\ airport[1].id = 2
    /\ Len(flight) = 2
    /\ profile # <<>>

====
